---- MODULE Spec2Model ----
(***************************************************************************)
(* A model of py_star/manager.py: the Asterisk Manager Interface client.   *)
(*                                                                         *)
(* A line of text is a sequence of tokens (strings).  The tokens that the  *)
(* code inspects are kept apart: ":" "/" " " "\r\n" "\n" and the literal   *)
(* words Response, Event, ActionID, Follows and --END COMMAND--.           *)
(***************************************************************************)
EXTENDS Integers, Sequences, FiniteSets, TLC

(* ---------------------------------------------------------------- bounds *)
(* the threads that call send_action and close *)
NumCallers == 2
(* the calls those threads start, all together *)
MaxCalls == 2
(* the calls of the one caller of SpecOne *)
SeqCalls == 3
(* the lines of a stream of SpecFrame between its first and its last part *)
MaxMid == 2
(* the calls of register_event and unregister_event in SpecDispatch *)
MaxReg == 3

(* ------------------------------------------------------- text primitives *)
CRLF == "\r\n"
EOL == <<CRLF>>
EndMarker == "--END COMMAND--"
Whitespace == {" ", CRLF, "\n", "\r", "\t"}

Range(q) == {q[i] : i \in 1..Len(q)}

Contains(line, tok) == \E i \in 1..Len(line) : line[i] = tok

EndsWith(line, tok) == Len(line) > 0 /\ line[Len(line)] = tok

StartsWith(line, tok) == Len(line) > 0 /\ line[1] = tok

IndexOf(line, tok) ==
    CHOOSE i \in 1..Len(line) :
        line[i] = tok /\ \A j \in 1..(i - 1) : line[j] # tok

RECURSIVE LStrip(_)
LStrip(s) ==
    IF s # <<>> /\ Head(s) \in Whitespace THEN LStrip(Tail(s)) ELSE s

RECURSIVE RStrip(_)
RStrip(s) ==
    IF s # <<>> /\ s[Len(s)] \in Whitespace
    THEN RStrip(SubSeq(s, 1, Len(s) - 1))
    ELSE s

Strip(s) == RStrip(LStrip(s))

(* str.split(sep, 1): one piece when sep is absent, else two *)
SplitOnce(line, sep) ==
    IF Contains(line, sep)
    THEN <<SubSeq(line, 1, IndexOf(line, sep) - 1),
           SubSeq(line, IndexOf(line, sep) + 1, Len(line))>>
    ELSE <<line>>

(* str.split(sep): every piece *)
RECURSIVE SplitAll(_, _)
SplitAll(line, sep) ==
    IF Contains(line, sep)
    THEN <<SubSeq(line, 1, IndexOf(line, sep) - 1)>>
         \o SplitAll(SubSeq(line, IndexOf(line, sep) + 1, Len(line)), sep)
    ELSE <<line>>

(* ''.join(list of lines) *)
RECURSIVE Join(_)
Join(ls) == IF ls = <<>> THEN <<>> ELSE Head(ls) \o Join(Tail(ls))

(* ------------------------------------------------------- ManagerMessage *)
HasKey(h, k) == k \in DOMAIN h

SetItem(h, k, v) ==
    [x \in (DOMAIN h) \cup {k} |-> IF x = k THEN v ELSE h[x]]

EmptyDict == [x \in {} |-> <<>>]

NewMessage(response) ==
    [response |-> response, data |-> <<>>,
     headers |-> EmptyDict, multiheaders |-> EmptyDict]

(* ManagerMessage.parse: header lines up to the first line that does not end
   in \r\n or has no colon; from there on everything is data *)
RECURSIVE ParseFrom(_, _)
ParseFrom(msg, n) ==
    IF n > Len(msg.response) THEN msg
    ELSE LET line == msg.response[n]
             rest == SubSeq(msg.response, n, Len(msg.response))
         IN IF ~EndsWith(line, CRLF)
            THEN [msg EXCEPT !.data = Join(rest)]
            ELSE LET parts == SplitOnce(line, ":")
                 IN IF Len(parts) # 2
                    THEN [msg EXCEPT !.data = Join(rest)]
                    ELSE LET k == Strip(parts[1])
                             v == Strip(parts[2])
                             old == IF HasKey(msg.multiheaders, k)
                                    THEN msg.multiheaders[k] ELSE <<>>
                         IN ParseFrom(
                              [msg EXCEPT
                                 !.headers = SetItem(msg.headers, k, v),
                                 !.multiheaders =
                                     SetItem(msg.multiheaders, k, Append(old, v))],
                              n + 1)

parse(response) == ParseFrom(NewMessage(response), 1)

GeneratedHeader == <<"Generated Header">>

WithHeader(m, k, v) ==
    [m EXCEPT !.headers = SetItem(m.headers, k, v),
              !.multiheaders = SetItem(m.multiheaders, k, <<v>>)]

(* the ladder without its last rung *)
RecoverNoDefault(m) ==
    IF ~HasKey(m.headers, <<"Event">>) /\ ~HasKey(m.headers, <<"Response">>)
    THEN IF HasKey(m.headers, <<"ActionID">>)
         THEN WithHeader(m, <<"Response">>, GeneratedHeader)
         ELSE IF Contains(m.data, EndMarker)
              THEN WithHeader(m, <<"Event">>, <<"NoClue">>)
              ELSE m
    ELSE m

(* the recovery ladder of ManagerMessage.__init__ *)
Recover(m) ==
    IF ~HasKey(m.headers, <<"Event">>) /\ ~HasKey(m.headers, <<"Response">>)
    THEN IF HasKey(m.headers, <<"ActionID">>)
         THEN WithHeader(m, <<"Response">>, GeneratedHeader)
         ELSE IF Contains(m.data, EndMarker)
              THEN WithHeader(m, <<"Event">>, <<"NoClue">>)
              ELSE WithHeader(m, <<"Response">>, GeneratedHeader)
    ELSE m

ManagerMessage(response) == Recover(parse(response))

(* Event.__init__ *)
Event(message) ==
    [message |-> message, data |-> message.data, headers |-> message.headers,
     multiheaders |-> message.multiheaders, name |-> message.headers[<<"Event">>]]

(* ------------------------------------------------------------ the state *)
VARIABLES
    connected,          \* self._connected
    running,            \* self._running
    sock,               \* self._sock: "none", "open" or "closed"
    wire,               \* the lines the server still has to deliver
    wireEnd,            \* what follows them: "EOF", "ERR" (socket.error) or "OPEN"
    title,              \* self.title
    version,            \* self.version
    reader,             \* the _receive_data thread: pc, multiline, wait_for_marker
    router,             \* the message_loop thread: pc, position in _response_waiters
    disp,               \* the event_dispatch thread: pc, ev, callbacks, position
    message_queue,      \* self._message_queue
    response_queue,     \* self._response_queue
    rq_cond,            \* its not_empty condition: the threads waiting, those woken
    event_queue,        \* self._event_queue
    errors_in_threads,  \* self.errors_in_threads
    response_waiters,   \* len(self._response_waiters): every element is 1
    seq,                \* self._seq
    seqlock,            \* self._seqlock: 0 when free, else the holder
    event_callbacks,    \* self._event_callbacks
    main,               \* the thread that calls connect(): pc, result
    pc,                 \* where each caller thread is
    call,               \* each caller's locals of the operation in progress
    budget,             \* operations the callers may still start
    hist                \* history: what was framed, routed, returned, invoked, sent

vars == <<connected, running, sock, wire, wireEnd, title, version, reader, router,
          disp, message_queue, response_queue, rq_cond, event_queue, errors_in_threads,
          response_waiters, seq, seqlock, event_callbacks, main, pc, call,
          budget, hist>>

NoneVal == <<"<None>">>
Falsy(x) == x = NoneVal \/ x = <<>>

NoResult == [none |-> TRUE]

Sentinel == [sentinel |-> TRUE]
IsSentinel(x) == "sentinel" \in DOMAIN x

(* ------------------------------------------------------- _receive_data *)
FakeHeader == <<"Response", ":", " ", "Generated Header", CRLF>>

(* the test with the colon condition the wrong way round *)
IsGreetingWithColon(t, line) == Falsy(t) /\ Contains(line, "/") /\ Contains(line, ":")

(* line 340: is this the greeting line *)
IsGreeting(t, line) == Falsy(t) /\ Contains(line, "/") /\ ~Contains(line, ":")

(* the flags without the `Response: Follows` rule of lines 380-382 *)
FlagsAfterNoFollows(line, ml, w) ==
    LET ml1 == IF ~EndsWith(line, CRLF) \/ ~Contains(line, ":") THEN TRUE ELSE ml
    IN IF ml1 /\ StartsWith(line, EndMarker)
       THEN [multiline |-> FALSE, wait |-> FALSE]
       ELSE [multiline |-> ml1, wait |-> w]

(* lines 376-386: the two flags after `line` was appended *)
FlagsAfter(line, ml, w) ==
    LET ml1 == IF ~EndsWith(line, CRLF) \/ ~Contains(line, ":") THEN TRUE ELSE ml
        w1 == IF ~ml1 /\ StartsWith(line, "Response")
                 /\ Strip(SplitOnce(line, ":")[2]) = <<"Follows">>
              THEN TRUE ELSE w
    IN IF ml1 /\ StartsWith(line, EndMarker)
       THEN [multiline |-> FALSE, wait |-> FALSE]
       ELSE [multiline |-> ml1, wait |-> w1]

(* lines 337-390: `for line in self._sock` up to its break, its end or its
   exception; r holds lines, the unread wire, title, version and the flags *)
RECURSIVE ReadLoop(_, _, _)
ReadLoop(r, conn, end) ==
    IF r.wire = <<>>
    THEN [r EXCEPT !.out = CASE end = "EOF" -> "eof"
                             [] end = "ERR" -> "error"
                             [] OTHER -> "block"]
    ELSE LET line == Head(r.wire)
             r1 == [r EXCEPT !.wire = Tail(r.wire)]
         IN IF IsGreeting(r.title, line)
            THEN [r1 EXCEPT !.title = Strip(SplitAll(line, "/")[1]),
                            !.version = Strip(SplitAll(line, "/")[2]),
                            !.lines = r.lines \o <<FakeHeader, line>>,
                            !.out = "break"]
            ELSE IF line = EOL /\ ~r.wait
            THEN IF r.lines # <<>> \/ ~conn
                 THEN [r1 EXCEPT !.multiline = FALSE, !.out = "break"]
                 ELSE ReadLoop([r1 EXCEPT !.multiline = FALSE], conn, end)
            ELSE LET f == FlagsAfter(line, r.multiline, r.wait)
                     r2 == [r1 EXCEPT !.lines = Append(r.lines, line),
                                      !.multiline = f.multiline,
                                      !.wait = f.wait]
                 IN IF ~conn THEN [r2 EXCEPT !.out = "break"]
                    ELSE ReadLoop(r2, conn, end)

ReadGroup ==
    ReadLoop([lines |-> <<>>, wire |-> wire, title |-> title, version |-> version,
              multiline |-> reader.multiline, wait |-> reader.wait, out |-> "none"],
             connected, wireEnd)

(* a put that places the item ahead of those waiting *)
PutFront(q, x) == <<x>> \o q

(* Queue._put: deque.append() *)
Put(q, x) == Append(q, x)

(* Queue.put on the response queue ends with not_empty.notify(): the thread
   that has waited longest in the condition is woken *)
Notify(cond) ==
    IF cond.waiting = <<>> THEN cond
    ELSE [waiting |-> Tail(cond.waiting),
          notified |-> cond.notified \cup {Head(cond.waiting)}]

(* Queue.get by thread t that has just called it, or has just been woken: it
   holds the mutex, takes the first item if there is one, and otherwise waits
   at the end of the condition's line *)
CanGet(t, at) == at = "get" \/ (at = "wait" /\ t \in rq_cond.notified)

(* a get that takes the newest item *)
QueueGetLast(q) == [item |-> q[Len(q)], queue |-> SubSeq(q, 1, Len(q) - 1)]

(* Queue._get: deque.popleft() *)
QueueGet(q) == [item |-> Head(q), queue |-> Tail(q)]

GetOrWait(t) ==
    IF response_queue # <<>>
    THEN [got |-> TRUE, item |-> QueueGet(response_queue).item,
          queue |-> QueueGet(response_queue).queue,
          cond |-> [rq_cond EXCEPT !.notified = @ \ {t}]]
    ELSE [got |-> FALSE, item |-> Sentinel, queue |-> response_queue,
          cond |-> [waiting |-> Append(rq_cond.waiting, t),
                    notified |-> rq_cond.notified \ {t}]]

(* a reader that puts the lines it holds whether connected or not *)
AfterLoopKeepsLines(lines, conn, gid) ==
    IF lines # <<>>
    THEN [item |-> [lines |-> lines, gid |-> gid], err |-> <<>>]
    ELSE [item |-> Sentinel, err |-> <<"No lines received">>]

(* lines 399-411: what the reader puts once the for loop is over *)
AfterLoop(lines, conn, gid) ==
    IF lines # <<>>
    THEN IF conn
         THEN [item |-> [lines |-> lines, gid |-> gid], err |-> <<>>]
         ELSE [item |-> Sentinel, err |-> <<"Received lines but are not connected">>]
    ELSE [item |-> Sentinel, err |-> <<"No lines received">>]

(* line 334: the loop condition.  Neither flag can change between this test
   and the end of the read that follows it: `connected` is cleared by this
   thread only, and close() clears `running` only after it has joined
   message_loop, which joins this thread *)
ReceiveDataExit ==
    /\ reader.pc = "loop"
    /\ ~(running /\ connected)
    /\ reader' = [reader EXCEPT !.pc = "done"]
    /\ UNCHANGED <<connected, running, sock, wire, wireEnd, title, version, router,
                   disp, message_queue, response_queue, rq_cond, event_queue,
                   errors_in_threads, response_waiters, seq, seqlock,
                   event_callbacks, main, pc, call, budget, hist>>

(* lines 334-396 and 412-417: one pass of the for loop; the thread waits in
   the socket read while the server has sent nothing more and has not hung up.
   A group that ended at a break is put at once (line 401); at the end of the
   stream or on a socket error the socket is closed and `connected` cleared,
   and the put follows in ReceiveDataPut *)
ReceiveDataRead ==
    /\ reader.pc = "loop"
    /\ running /\ connected
    /\ \E g \in {ReadGroup} :
       LET failed == g.out \in {"eof", "error"}
           conn == connected /\ ~failed
           gid == hist.ngroups + 1
           after == IF g.out = "error"
                    THEN [item |-> Sentinel, err |-> <<"Socket error">>]
                    ELSE AfterLoop(g.lines, conn, gid)
       IN /\ g.out # "block"
          /\ wire' = g.wire
          /\ title' = g.title
          /\ version' = g.version
          /\ connected' = conn
          /\ sock' = IF failed THEN "closed" ELSE sock
          /\ IF failed
             THEN /\ reader' = [pc |-> "put", multiline |-> g.multiline,
                                wait |-> g.wait, item |-> after.item,
                                err |-> after.err]
                  /\ UNCHANGED <<message_queue, errors_in_threads>>
             ELSE /\ reader' = [pc |-> "loop", multiline |-> g.multiline,
                                wait |-> g.wait, item |-> Sentinel, err |-> <<>>]
                  /\ message_queue' = Put(message_queue, after.item)
                  /\ errors_in_threads' = errors_in_threads \o after.err
          /\ hist' = [hist EXCEPT
                !.ngroups = IF IsSentinel(after.item) THEN @ ELSE gid,
                !.groups = IF IsSentinel(after.item) THEN @
                           ELSE Append(@, [start |-> Len(hist.wire0) - Len(wire) + 1,
                                           multiline |-> reader.multiline,
                                           wait |-> reader.wait,
                                           title |-> title,
                                           lines |-> g.lines]),
                !.failBlocked = IF failed
                                THEN {c \in DOMAIN pc : pc[c] = "wait"}
                                ELSE @,
                !.failed = @ \/ failed]
    /\ UNCHANGED <<running, wireEnd, router, disp, response_queue, rq_cond, event_queue,
                   response_waiters, seq, seqlock, event_callbacks, main, pc,
                   call, budget>>

(* lines 402-411 and 419-420: the termination marker and the error message *)
ReceiveDataPut ==
    /\ reader.pc = "put"
    /\ message_queue' = Put(message_queue, reader.item)
    /\ errors_in_threads' = errors_in_threads \o reader.err
    /\ reader' = [reader EXCEPT !.pc = "loop", !.err = <<>>]
    /\ UNCHANGED <<connected, running, sock, wire, wireEnd, title, version, router,
                   disp, response_queue, rq_cond, event_queue, response_waiters, seq,
                   seqlock, event_callbacks, main, pc, call, budget, hist>>

(* ---------------------------------------------------------- message_loop *)
(* lines 450-453: the thread starts the reader thread *)
MessageLoopStart ==
    /\ router.pc = "start"
    /\ router' = [router EXCEPT !.pc = "loop"]
    /\ reader' = [reader EXCEPT !.pc = "loop"]
    /\ UNCHANGED <<connected, running, sock, wire, wireEnd, title, version, disp,
                   message_queue, response_queue, rq_cond, event_queue, errors_in_threads,
                   response_waiters, seq, seqlock, event_callbacks, main, pc,
                   call, budget, hist>>

(* lines 474-488: parse the group and put the message on its queue *)
Route(data) ==
    LET message == ManagerMessage(data.lines)
    IN IF HasKey(message.headers, <<"Event">>)
       THEN [to |-> "event", item |-> [ev |-> Event(message), gid |-> data.gid],
             err |-> <<>>]
       ELSE IF HasKey(message.headers, <<"Response">>)
       THEN [to |-> "response", item |-> [msg |-> message, gid |-> data.gid],
             err |-> <<>>]
       ELSE [to |-> "response", item |-> Sentinel, err |-> <<"No clue what we got">>]

(* lines 457-488: the loop ends when `running` is clear (close() clears it
   only after it has joined this thread, so the flag cannot change between the
   test and the get); else get a group: the termination marker goes on to the
   event queue and starts the walk over _response_waiters *)
MessageLoopGet ==
    /\ router.pc = "loop"
    /\ running => message_queue # <<>>
    /\ LET data == IF running THEN QueueGet(message_queue).item ELSE Sentinel
       IN /\ message_queue' = IF running THEN QueueGet(message_queue).queue
                               ELSE message_queue
          /\ IF ~running
             THEN /\ router' = [router EXCEPT !.pc = "join"]
                  /\ UNCHANGED <<event_queue, response_queue, rq_cond,
                                 errors_in_threads, hist>>
             ELSE IF IsSentinel(data)
             THEN /\ event_queue' = Put(event_queue, Sentinel)
                  /\ router' = [pc |-> "notify", idx |-> 0]
                  /\ hist' = [hist EXCEPT !.evSentinels = @ + 1,
                                          !.fanWaiters = response_waiters]
                  /\ UNCHANGED <<response_queue, rq_cond, errors_in_threads>>
             ELSE \E r \in {Route(data)} :
                     /\ IF r.to = "event"
                        THEN /\ event_queue' = Put(event_queue, r.item)
                             /\ hist' = [hist EXCEPT !.events = Append(@, r.item.gid)]
                             /\ UNCHANGED <<response_queue, rq_cond>>
                        ELSE /\ response_queue' = Put(response_queue, r.item)
                             /\ rq_cond' = Notify(rq_cond)
                             /\ hist' = [hist EXCEPT
                                   !.routed = Append(@, IF IsSentinel(r.item) THEN 0
                                                        ELSE r.item.gid)]
                             /\ UNCHANGED event_queue
                     /\ errors_in_threads' = errors_in_threads \o r.err
                     /\ router' = [router EXCEPT !.pc = "loop"]
    /\ UNCHANGED <<connected, running, sock, wire, wireEnd, title, version, reader,
                   disp, response_waiters, seq, seqlock, event_callbacks, main,
                   pc, call, budget>>

(* lines 469-471: `for waiter in self._response_waiters`: the list iterator
   holds a position and stops when it reaches the list's current length *)
MessageLoopNotify ==
    /\ router.pc = "notify"
    /\ IF router.idx < response_waiters
       THEN /\ response_queue' = Put(response_queue, Sentinel)
            /\ rq_cond' = Notify(rq_cond)
            /\ router' = [router EXCEPT !.idx = @ + 1]
       ELSE /\ router' = [router EXCEPT !.pc = "join"]
            /\ UNCHANGED <<response_queue, rq_cond>>
    /\ UNCHANGED <<connected, running, sock, wire, wireEnd, title, version, reader,
                   disp, message_queue, event_queue, errors_in_threads,
                   response_waiters, seq, seqlock, event_callbacks, main, pc,
                   call, budget, hist>>

(* line 495: t.join() *)
MessageLoopJoin ==
    /\ router.pc = "join"
    /\ reader.pc = "done"
    /\ router' = [router EXCEPT !.pc = "done"]
    /\ UNCHANGED <<connected, running, sock, wire, wireEnd, title, version, reader,
                   disp, message_queue, response_queue, rq_cond, event_queue,
                   errors_in_threads, response_waiters, seq, seqlock,
                   event_callbacks, main, pc, call, budget, hist>>

(* ------------------------------------ register_event, unregister_event *)
(* dict.get(key, []) *)
GetList(d, k) == IF HasKey(d, k) THEN d[k] ELSE <<>>

Handlers == {"hF", "hT", "hX"}

EventNames == {<<"Hangup">>, <<"*">>}

(* list.remove(x): the list without the first x *)
ListRemove(l, x) ==
    LET i == IndexOf(l, x)
    IN SubSeq(l, 1, i - 1) \o SubSeq(l, i + 1, Len(l))

(* the handlers registered for `name`, in the order of their registration *)
RegisteredFor(regs, name) ==
    LET mine == SelectSeq(regs, LAMBDA r : r.name = name)
    IN [i \in 1..Len(mine) |-> mine[i].handler]

(* lines 431-433: append to the list of the event, or to a new list *)
RegisterEvent ==
    /\ budget > 0
    /\ \E name \in EventNames, h \in Handlers :
          /\ event_callbacks' = SetItem(event_callbacks, name,
                                        Append(GetList(event_callbacks, name), h))
          /\ hist' = [hist EXCEPT !.regs = Append(@, [name |-> name, handler |-> h])]
    /\ budget' = budget - 1
    /\ UNCHANGED <<connected, running, sock, wire, wireEnd, title, version, reader,
                   router, disp, message_queue, response_queue, rq_cond, event_queue,
                   errors_in_threads, response_waiters, seq, seqlock, main, pc, call>>

(* lines 439-441: list.remove raises ValueError when the function is not in
   the list, and then nothing is stored *)
UnregisterEvent ==
    /\ budget > 0
    /\ \E name \in EventNames, h \in Handlers :
          LET current == GetList(event_callbacks, name)
          IN IF Contains(current, h)
             THEN /\ event_callbacks' = SetItem(event_callbacks, name,
                                                ListRemove(current, h))
                  /\ hist' = [hist EXCEPT
                        !.regs = ListRemove(@, [name |-> name, handler |-> h])]
             ELSE UNCHANGED <<event_callbacks, hist>>
    /\ budget' = budget - 1
    /\ UNCHANGED <<connected, running, sock, wire, wireEnd, title, version, reader,
                   router, disp, message_queue, response_queue, rq_cond, event_queue,
                   errors_in_threads, response_waiters, seq, seqlock, main, pc, call>>

(* -------------------------------------------------------- event_dispatch *)
(* what a handler does when it is called: return a falsy value, return a
   truthy value, or raise *)
HandlerResult(h) ==
    CASE h = "hT" -> "truthy"
      [] h = "hX" -> "raise"
      [] h = "hC" -> "close"
      [] OTHER -> "falsy"

(* lines 513-514 *)
Callbacks(name) == GetList(event_callbacks, name) \o GetList(event_callbacks, <<"*">>)

(* lines 501-514: the loop ends when `running` is clear; else get an event
   and build the list of functions to call *)
EventDispatchGet ==
    /\ disp.pc = "top"
    /\ running => event_queue # <<>>
    /\ LET ev == IF running THEN QueueGet(event_queue).item ELSE Sentinel
       IN /\ event_queue' = IF running THEN QueueGet(event_queue).queue
                             ELSE event_queue
          /\ IF ~running
             THEN /\ disp' = [disp EXCEPT !.pc = "done"]
                  /\ UNCHANGED hist
             ELSE IF IsSentinel(ev)
             THEN /\ disp' = [disp EXCEPT !.pc = "done"]
                  /\ hist' = [hist EXCEPT !.dispSentinels = @ + 1]
             ELSE LET callbacks == Callbacks(ev.ev.name)
                  IN /\ disp' = [pc |-> IF callbacks = <<>> THEN "top" ELSE "call",
                                 gid |-> ev.gid, callbacks |-> callbacks, idx |-> 1]
                     /\ hist' = [hist EXCEPT
                           !.dispatched = Append(@,
                               [gid |-> ev.gid, name |-> ev.ev.name,
                                callbacks |-> callbacks,
                                registered |-> RegisteredFor(hist.regs, ev.ev.name)
                                               \o RegisteredFor(hist.regs, <<"*">>)])]
    /\ UNCHANGED <<connected, running, sock, wire, wireEnd, title, version, reader,
                   router, message_queue, response_queue, rq_cond, errors_in_threads,
                   response_waiters, seq, seqlock, event_callbacks, main, pc,
                   call, budget>>

(* lines 517-519: call the next function; a truthy result ends the event, an
   exception leaves event_dispatch and ends the thread *)
EventDispatchCall ==
    /\ disp.pc = "call"
    /\ LET h == disp.callbacks[disp.idx]
           res == HandlerResult(h)
       IN /\ res # "close"
          /\ disp' = [disp EXCEPT
                 !.pc = CASE res = "raise" -> "dead"
                          [] res = "truthy" -> "top"
                          [] OTHER -> IF disp.idx < Len(disp.callbacks)
                                      THEN "call" ELSE "top",
                 !.idx = @ + 1]
          /\ hist' = [hist EXCEPT
                !.invoked = Append(@, [gid |-> disp.gid, idx |-> disp.idx,
                                       handler |-> h])]
    /\ UNCHANGED <<connected, running, sock, wire, wireEnd, title, version, reader,
                   router, message_queue, response_queue, rq_cond, event_queue,
                   errors_in_threads, response_waiters, seq, seqlock,
                   event_callbacks, main, pc, call, budget>>

(* --------------------------------------------------------------- connect *)
(* lines 524-550: the socket is made or socket.error is raised; then both
   flags are set and both threads started *)
Connect ==
    /\ main.pc = "init"
    /\ IF connected
       THEN /\ main' = [main EXCEPT !.pc = "raised", !.error = "Already connected"]
            /\ UNCHANGED <<connected, running, sock, router, disp>>
       ELSE \E ok \in BOOLEAN :
              IF ok
              THEN /\ sock' = "open"
                   /\ connected' = TRUE
                   /\ running' = TRUE
                   /\ router' = [router EXCEPT !.pc = "start"]
                   /\ disp' = [disp EXCEPT !.pc = "top"]
                   /\ main' = [main EXCEPT !.pc = "get"]
              ELSE /\ main' = [main EXCEPT !.pc = "raised", !.error = "socket.error"]
                   /\ UNCHANGED <<connected, running, sock, router, disp>>
    /\ UNCHANGED <<wire, wireEnd, title, version, reader, message_queue,
                   response_queue, rq_cond, event_queue, errors_in_threads,
                   response_waiters, seq, seqlock, event_callbacks, pc, call,
                   budget, hist>>

(* lines 553-559: the initial response *)
ConnectGet ==
    /\ CanGet(0, main.pc)
    /\ \E g \in {GetOrWait(0)} :
          /\ response_queue' = g.queue
          /\ rq_cond' = g.cond
          /\ IF ~g.got
             THEN /\ main' = [main EXCEPT !.pc = "wait"]
                  /\ UNCHANGED hist
             ELSE IF IsSentinel(g.item)
             THEN /\ main' = [main EXCEPT !.pc = "raised",
                                          !.error = "Connection Terminated"]
                  /\ UNCHANGED hist
             ELSE /\ main' = [main EXCEPT !.pc = "ready", !.result = g.item]
                  /\ hist' = [hist EXCEPT !.returned = Append(@, g.item.gid)]
    /\ UNCHANGED <<connected, running, sock, wire, wireEnd, title, version, reader,
                   router, disp, message_queue, event_queue, errors_in_threads,
                   response_waiters, seq, seqlock, event_callbacks, pc, call,
                   budget>>

(* -------------------------------------------------- next_seq, send_action *)
HexDigit(d) == SubSeq(<<"0", "1", "2", "3", "4", "5", "6", "7",
                        "8", "9", "a", "b", "c", "d", "e", "f">>, d + 1, d + 1)

RECURSIVE Hex(_)
Hex(n) == IF n < 16 THEN HexDigit(n) ELSE Hex(n \div 16) \o HexDigit(n % 16)

RECURSIVE ZeroPad(_, _)
ZeroPad(digits, width) ==
    IF Len(digits) >= width THEN digits ELSE ZeroPad(<<"0">> \o digits, width)

(* line 290: '%s-%04s-%08x' % (self.hostname, self.pid, n) *)
FormatActionID(n) == <<"host", "-", "pid", "-">> \o ZeroPad(Hex(n), 8)

(* the ActionID of a caller that supplies its own *)
OwnActionID(c) == <<"own", "-">> \o Hex(c)

(* a lock that everyone may take *)
LockIgnored(lock) == TRUE

(* line 256: self._seqlock.acquire() goes on when the lock is free *)
LockFree(lock) == lock = 0

(* what a send_action that ends here hands to its caller; a logoff is the
   first step of close(), which goes on if it returned and ends with the
   exception if it raised *)
Finish(c, outcome) ==
    /\ call' = [call EXCEPT ![c] = [op |-> call[c].op, own |-> FALSE, aid |-> <<>>,
                                    ret |-> 0, response |-> NoResult, waited |-> FALSE,
                                    outcome |-> outcome.kind]]
    /\ IF call[c].op = "logoff"
       THEN /\ pc' = [pc EXCEPT ![c] = IF outcome.kind = "response"
                                       THEN "close_running" ELSE "idle"]
            /\ budget' = IF outcome.kind = "response" THEN budget
                         ELSE budget - 1
       ELSE /\ pc' = [pc EXCEPT ![c] = "idle"]
            /\ budget' = budget - 1

Raised(what) == [kind |-> what, gid |-> 0]

(* a send_action that never refuses *)
NeverRefuses == FALSE

(* line 282: not self._connected.isSet() *)
NotConnected == ~connected

(* lines 282-291: the connected check and the choice of the ActionID *)
Check(c, op, own) ==
    IF NotConnected
    THEN /\ call' = [call EXCEPT ![c] = [op |-> op, own |-> FALSE, aid |-> <<>>,
                                         ret |-> 0, response |-> NoResult, waited |-> FALSE,
                                         outcome |-> "Not connected"]]
         /\ pc' = [pc EXCEPT ![c] = "idle"]
         /\ budget' = budget - 1
    ELSE /\ call' = [call EXCEPT ![c] = [op |-> op, own |-> own,
                                         aid |-> IF own THEN OwnActionID(c) ELSE <<>>,
                                         ret |-> 0, response |-> NoResult, waited |-> FALSE,
                                         outcome |-> "none"]]
         /\ pc' = [pc EXCEPT ![c] = IF own THEN "write" ELSE "next_seq"]
         /\ UNCHANGED budget

(* the caller threads run the same code: they are numbered in the order of
   their first call; they get the Manager once connect() has returned or
   raised *)
MayCall(c) ==
    /\ pc[c] = "idle"
    /\ budget > 0
    /\ main.pc \in {"ready", "raised"}
    /\ c - 1 \in DOMAIN pc => call[c - 1].op # "none"

(* a caller starts send_action, with or without an ActionID of its own *)
SendAction(c) ==
    /\ MayCall(c)
    /\ \E own \in BOOLEAN : Check(c, "send_action", own)
    /\ UNCHANGED <<connected, running, sock, wire, wireEnd, title, version, reader,
                   router, disp, message_queue, response_queue, rq_cond, event_queue,
                   errors_in_threads, response_waiters, seq, seqlock,
                   event_callbacks, main, hist>>

(* lines 256-258: take the lock and evaluate the value to return *)
NextSeqEnter(c) ==
    /\ pc[c] = "next_seq"
    /\ LockFree(seqlock)
    /\ seqlock' = c
    /\ call' = [call EXCEPT ![c].ret = seq]
    /\ pc' = [pc EXCEPT ![c] = "next_seq_finally"]
    /\ hist' = [hist EXCEPT !.seqs = Append(@, seq)]
    /\ UNCHANGED <<connected, running, sock, wire, wireEnd, title, version, reader,
                   router, disp, message_queue, response_queue, rq_cond, event_queue,
                   errors_in_threads, response_waiters, seq, event_callbacks, main,
                   budget>>

(* lines 259-261 and 290: add one, release the lock, format the ActionID *)
NextSeqFinally(c) ==
    /\ pc[c] = "next_seq_finally"
    /\ seq' = seq + 1
    /\ seqlock' = 0
    /\ call' = [call EXCEPT ![c].aid = FormatActionID(call[c].ret)]
    /\ pc' = [pc EXCEPT ![c] = "write"]
    /\ UNCHANGED <<connected, running, sock, wire, wireEnd, title, version, reader,
                   router, disp, message_queue, response_queue, rq_cond, event_queue,
                   errors_in_threads, response_waiters, event_callbacks, main,
                   budget, hist>>

(* lines 307-313: write the command; writing to the closed socket file raises,
   and so may writing to a connection that has broken *)
SendActionWrite(c) ==
    /\ pc[c] = "write"
    /\ \E ok \in BOOLEAN :
          /\ ok => sock = "open"
          /\ ~ok => sock = "closed" \/ (wire = <<>> /\ wireEnd = "ERR")
          /\ IF ok
             THEN /\ pc' = [pc EXCEPT ![c] = "register"]
                  /\ UNCHANGED <<budget, call>>
             ELSE Finish(c, Raised("write failed"))
    /\ UNCHANGED <<connected, running, sock, wire, wireEnd, title, version, reader,
                   router, disp, message_queue, response_queue, rq_cond, event_queue,
                   errors_in_threads, response_waiters, seq, seqlock,
                   event_callbacks, main, hist>>

(* line 315 *)
SendActionRegister(c) ==
    /\ pc[c] = "register"
    /\ response_waiters' = response_waiters + 1
    /\ pc' = [pc EXCEPT ![c] = "get"]
    /\ UNCHANGED <<connected, running, sock, wire, wireEnd, title, version, reader,
                   router, disp, message_queue, response_queue, rq_cond, event_queue,
                   errors_in_threads, seq, seqlock, event_callbacks, main, call,
                   budget, hist>>

(* line 316 *)
SendActionGet(c) ==
    /\ CanGet(c, pc[c])
    /\ \E g \in {GetOrWait(c)} :
          /\ response_queue' = g.queue
          /\ rq_cond' = g.cond
          /\ IF g.got
             THEN /\ pc' = [pc EXCEPT ![c] = "pop"]
                  /\ call' = [call EXCEPT ![c].response = g.item]
                  /\ hist' = [hist EXCEPT
                        !.returned = IF IsSentinel(g.item) THEN @
                                     ELSE Append(@, g.item.gid),
                        !.blocked = SelectSeq(@, LAMBDA d : d # c)]
             ELSE /\ pc' = [pc EXCEPT ![c] = "wait"]
                  /\ hist' = [hist EXCEPT
                        !.blocked = IF c \in Range(@) THEN @ ELSE Append(@, c)]
                  /\ call' = [call EXCEPT ![c].waited = TRUE]
    /\ UNCHANGED <<connected, running, sock, wire, wireEnd, title, version, reader,
                   router, disp, message_queue, event_queue, errors_in_threads,
                   response_waiters, seq, seqlock, event_callbacks, main, budget>>

(* ManagerMessage.get_header, lines 79-81 *)
get_header(m, hname, defval) ==
    IF HasKey(m.headers, hname) THEN m.headers[hname] ELSE defval

(* a login() that hands back whatever response it got *)
LoginAcceptsAll(item) == [kind |-> "response", gid |-> item.gid, arg |-> NoneVal]

(* lines 601-604: what login() does with the response of its send_action *)
LoginOutcome(item) ==
    IF get_header(item.msg, <<"Response">>, NoneVal) = <<"Error">>
    THEN [kind |-> "ManagerAuthException", gid |-> item.gid,
          arg |-> get_header(item.msg, <<"Message">>, NoneVal)]
    ELSE [kind |-> "response", gid |-> item.gid, arg |-> NoneVal]

(* lines 317-323, and for a login() lines 601-604 *)
SendActionReturn(c) ==
    /\ pc[c] = "pop"
    /\ response_waiters' = response_waiters - 1
    /\ IF IsSentinel(call[c].response)
       THEN /\ Finish(c, Raised("Connection Terminated"))
            /\ UNCHANGED hist
       ELSE IF call[c].op = "login"
       THEN /\ Finish(c, LoginOutcome(call[c].response))
            /\ hist' = [hist EXCEPT
                  !.logins = Append(@, LoginOutcome(call[c].response))]
       ELSE /\ Finish(c, [kind |-> "response", gid |-> call[c].response.gid])
            /\ UNCHANGED hist
    /\ UNCHANGED <<connected, running, sock, wire, wireEnd, title, version, reader,
                   router, disp, message_queue, response_queue, rq_cond, event_queue,
                   errors_in_threads, seq, seqlock, event_callbacks, main>>

(* lines 588-599: login() is send_action with Action, Username and Secret,
   and no ActionID of its own *)
Login(c) ==
    /\ MayCall(c)
    /\ Check(c, "login", FALSE)
    /\ UNCHANGED <<connected, running, sock, wire, wireEnd, title, version, reader,
                   router, disp, message_queue, response_queue, rq_cond, event_queue,
                   errors_in_threads, response_waiters, seq, seqlock,
                   event_callbacks, main, hist>>

(* lines 521-550, called on a Manager whose first connect() has returned: it
   raises when connected; else the socket is made or socket.error is raised,
   both flags are set, and message_thread.start() raises RuntimeError, because
   a thread is started once *)
ConnectAgain(c) ==
    /\ MayCall(c)
    /\ main.pc = "ready"
    /\ \E ok \in BOOLEAN :
          LET what == IF connected THEN "Already connected"
                      ELSE IF ok THEN "RuntimeError" ELSE "socket.error"
          IN /\ connected => ok
             /\ call' = [call EXCEPT ![c] = [op |-> "connect", own |-> FALSE,
                                              aid |-> <<>>, ret |-> 0,
                                              response |-> NoResult, waited |-> FALSE,
                                              outcome |-> what]]
             /\ IF what = "RuntimeError"
                THEN /\ sock' = "open"
                     /\ connected' = TRUE
                     /\ running' = TRUE
                ELSE UNCHANGED <<sock, connected, running>>
             /\ hist' = [hist EXCEPT !.connects = Append(@, what)]
    /\ pc' = [pc EXCEPT ![c] = "idle"]
    /\ budget' = budget - 1
    /\ UNCHANGED <<wire, wireEnd, title, version, reader, router, disp,
                   message_queue, response_queue, rq_cond, event_queue,
                   errors_in_threads, response_waiters, seq, seqlock,
                   event_callbacks, main>>

(* ----------------------------------------------------------------- close *)
(* a close() that logs off whatever the flags say *)
AlwaysLogsOff == TRUE

(* line 565: self.is_running() and self.is_connected() *)
CloseLogsOff == running /\ connected

(* lines 565-567: log off when running and connected; logoff() is
   send_action({'Action': 'Logoff'}), which checks `connected` itself *)
CloseEnter(c) ==
    IF CloseLogsOff
    THEN /\ pc' = [pc EXCEPT ![c] = "logoff"]
         /\ call' = [call EXCEPT ![c].op = "logoff"]
    ELSE /\ pc' = [pc EXCEPT ![c] = "close_running"]
         /\ call' = [call EXCEPT ![c].op = "close", ![c].outcome = "none"]

(* close() called by a caller thread *)
Close(c) ==
    /\ MayCall(c)
    /\ CloseEnter(c)
    /\ UNCHANGED <<connected, running, sock, wire, wireEnd, title, version, reader,
                   router, disp, message_queue, response_queue, rq_cond, event_queue,
                   errors_in_threads, response_waiters, seq, seqlock,
                   event_callbacks, main, budget, hist>>

(* lines 615-622 and 282-291 *)
Logoff(c) ==
    /\ pc[c] = "logoff"
    /\ Check(c, "logoff", FALSE)
    /\ UNCHANGED <<connected, running, sock, wire, wireEnd, title, version, reader,
                   router, disp, message_queue, response_queue, rq_cond, event_queue,
                   errors_in_threads, response_waiters, seq, seqlock,
                   event_callbacks, main, hist>>

(* a close() that leaves the flag as it is *)
RunningLeftSet == TRUE

(* line 584: self._running.clear() *)
RunningCleared == FALSE

(* lines 569-572 and 584: when running, tell message_loop to finish; when
   not, there is only the flag to clear *)
CloseRunning(c) ==
    /\ pc[c] = "close_running"
    /\ IF running
       THEN /\ message_queue' = Put(message_queue, Sentinel)
            /\ pc' = [pc EXCEPT ![c] = "close_join"]
            /\ UNCHANGED <<running, budget, hist>>
       ELSE /\ running' = RunningCleared
            /\ pc' = [pc EXCEPT ![c] = "idle"]
            /\ budget' = budget - 1
            /\ hist' = [hist EXCEPT !.closed = TRUE]
            /\ UNCHANGED message_queue
    /\ UNCHANGED <<connected, sock, wire, wireEnd, title, version, reader, router,
                   disp, response_queue, rq_cond, event_queue, errors_in_threads,
                   response_waiters, seq, seqlock, event_callbacks, main, call>>

(* line 576: self.message_thread.join() *)
CloseJoinMessage(c) ==
    /\ pc[c] = "close_join"
    /\ router.pc = "done"
    /\ pc' = [pc EXCEPT ![c] = "close_join_dispatch"]
    /\ UNCHANGED <<connected, running, sock, wire, wireEnd, title, version, reader,
                   router, disp, message_queue, response_queue, rq_cond, event_queue,
                   errors_in_threads, response_waiters, seq, seqlock,
                   event_callbacks, main, call, budget, hist>>

(* the thread of event_dispatch, line 228, when it runs close() itself *)
DispatchThread == 9

(* line 579: threading.currentThread() != self.event_dispatch_thread *)
JoinsDispatch(c) == c # DispatchThread

(* lines 579-584: join the dispatch thread unless this is the dispatch
   thread, then clear `running` *)
CloseJoinDispatch(c) ==
    /\ pc[c] = "close_join_dispatch"
    /\ JoinsDispatch(c) => disp.pc \in {"done", "dead"}
    /\ running' = RunningCleared
    /\ pc' = [pc EXCEPT ![c] = "idle"]
    /\ budget' = budget - 1
    /\ hist' = [hist EXCEPT !.closed = TRUE]
    /\ UNCHANGED <<connected, sock, wire, wireEnd, title, version, reader, router,
                   disp, message_queue, response_queue, rq_cond, event_queue,
                   errors_in_threads, response_waiters, seq, seqlock,
                   event_callbacks, main, call>>

(* ------------------------------------------- close() from a handler *)
(* lines 517-519 with a handler that calls close() on the Manager and returns
   what it returns: close() starts on the dispatch thread *)
EventDispatchClose ==
    /\ disp.pc = "call"
    /\ HandlerResult(disp.callbacks[disp.idx]) = "close"
    /\ DispatchThread \in DOMAIN pc
    /\ pc[DispatchThread] = "idle"
    /\ disp' = [disp EXCEPT !.pc = "handler"]
    /\ CloseEnter(DispatchThread)
    /\ hist' = [hist EXCEPT
          !.invoked = Append(@, [gid |-> disp.gid, idx |-> disp.idx,
                                 handler |-> disp.callbacks[disp.idx]])]
    /\ UNCHANGED <<connected, running, sock, wire, wireEnd, title, version, reader,
                   router, message_queue, response_queue, rq_cond, event_queue,
                   errors_in_threads, response_waiters, seq, seqlock,
                   event_callbacks, main, budget>>

(* the close() of the handler is over: when it returned, the handler returns
   None and the for loop goes on; when its logoff raised, the exception leaves
   the handler, event_dispatch and the thread *)
EventDispatchReturn ==
    /\ disp.pc = "handler"
    /\ pc[DispatchThread] = "idle"
    /\ LET raised == call[DispatchThread].op = "logoff"
                      /\ call[DispatchThread].outcome # "response"
       IN disp' = [disp EXCEPT
             !.pc = IF raised THEN "dead"
                    ELSE IF disp.idx < Len(disp.callbacks) THEN "call" ELSE "top",
             !.idx = @ + 1]
    /\ UNCHANGED <<connected, running, sock, wire, wireEnd, title, version, reader,
                   router, message_queue, response_queue, rq_cond, event_queue,
                   errors_in_threads, response_waiters, seq, seqlock,
                   event_callbacks, main, pc, call, budget, hist>>

(* lines 431-433 before connect(): register_event('Hangup', hC) and then
   register_event('Hangup', hF), hC being the handler that calls close() *)
RegisterCloser ==
    /\ main.pc = "init"
    /\ Len(GetList(event_callbacks, <<"Hangup">>)) < 2
    /\ LET h == IF GetList(event_callbacks, <<"Hangup">>) = <<>> THEN "hC" ELSE "hF"
       IN /\ event_callbacks' = SetItem(event_callbacks, <<"Hangup">>,
                                        Append(GetList(event_callbacks, <<"Hangup">>), h))
          /\ hist' = [hist EXCEPT
                !.regs = Append(@, [name |-> <<"Hangup">>, handler |-> h])]
    /\ UNCHANGED <<connected, running, sock, wire, wireEnd, title, version, reader,
                   router, disp, message_queue, response_queue, rq_cond, event_queue,
                   errors_in_threads, response_waiters, seq, seqlock, main, pc, call,
                   budget>>

(* ------------------------------- register_event called by several threads *)
(* the handlers the caller threads register: both return *)
CallerHandlers == {"hF", "hT"}

(* and the event name they register them for *)
CallerEventNames == {<<"Hangup">>}

(* thread c is inside register_event for `name` and its current_callbacks is
   the list object that the dict holds for that name *)
HoldsDictList(c, name) ==
    /\ pc[c] \in {"reg_append", "reg_store"}
    /\ call[c].event = name
    /\ call[c].shared

(* line 431: current_callbacks = self._event_callbacks.get(event, []): the
   list object of the dict when the key is there, else a new empty list that
   only this thread holds *)
RegisterEventGet(c) ==
    /\ MayCall(c)
    /\ \E name \in CallerEventNames, h \in CallerHandlers :
          call' = [call EXCEPT ![c] =
                     [op |-> "register_event", own |-> FALSE, aid |-> <<>>, ret |-> 0,
                      response |-> NoResult, waited |-> FALSE, outcome |-> "none",
                      event |-> name, function |-> h,
                      shared |-> HasKey(event_callbacks, name),
                      current_callbacks |-> GetList(event_callbacks, name)]]
    /\ pc' = [pc EXCEPT ![c] = "reg_append"]
    /\ UNCHANGED <<connected, running, sock, wire, wireEnd, title, version, reader,
                   router, disp, message_queue, response_queue, rq_cond, event_queue,
                   errors_in_threads, response_waiters, seq, seqlock,
                   event_callbacks, main, budget, hist>>

(* line 432: current_callbacks.append(function) changes the list object in
   place: when it is the dict's, the dict shows the new element at once *)
RegisterEventAppend(c) ==
    /\ pc[c] = "reg_append"
    /\ IF call[c].shared
       THEN /\ event_callbacks' =
                  SetItem(event_callbacks, call[c].event,
                          Append(event_callbacks[call[c].event], call[c].function))
            /\ UNCHANGED call
       ELSE /\ call' = [call EXCEPT ![c].current_callbacks =
                                       Append(@, call[c].function)]
            /\ UNCHANGED event_callbacks
    /\ pc' = [pc EXCEPT ![c] = "reg_store"]
    /\ UNCHANGED <<connected, running, sock, wire, wireEnd, title, version, reader,
                   router, disp, message_queue, response_queue, rq_cond, event_queue,
                   errors_in_threads, response_waiters, seq, seqlock, main, budget,
                   hist>>

(* line 433: self._event_callbacks[event] = current_callbacks.  Storing the
   dict's own list changes nothing; storing another list replaces the dict's,
   and a thread that held the replaced one now holds a list that is no longer
   the dict's (of two threads, it is then the only holder) *)
RegisterEventStore(c) ==
    /\ pc[c] = "reg_store"
    /\ LET name == call[c].event
           done == [op |-> "register_event", own |-> FALSE, aid |-> <<>>, ret |-> 0,
                    response |-> NoResult, waited |-> FALSE, outcome |-> "returned"]
       IN /\ IF call[c].shared
             THEN /\ UNCHANGED event_callbacks
                  /\ call' = [call EXCEPT ![c] = done]
             ELSE /\ event_callbacks' =
                        SetItem(event_callbacks, name, call[c].current_callbacks)
                  /\ call' = [d \in DOMAIN call |->
                                IF d = c THEN done
                                ELSE IF HoldsDictList(d, name)
                                THEN [call[d] EXCEPT
                                        !.shared = FALSE,
                                        !.current_callbacks = event_callbacks[name]]
                                ELSE call[d]]
          /\ hist' = [hist EXCEPT
                !.regs = Append(@, [name |-> name, handler |-> call[c].function])]
    /\ pc' = [pc EXCEPT ![c] = "idle"]
    /\ budget' = budget - 1
    /\ UNCHANGED <<connected, running, sock, wire, wireEnd, title, version, reader,
                   router, disp, message_queue, response_queue, rq_cond, event_queue,
                   errors_in_threads, response_waiters, seq, seqlock, main>>

(* ------------------------------------------------------- what is received *)
LBanner == <<"Asterisk Call Manager", "/", "1.1", CRLF>>
LNoTitle == <<"/", "1.1", CRLF>>
LSuccess == <<"Response", ":", " ", "Success", CRLF>>
LError == <<"Response", ":", " ", "Error", CRLF>>
LFollows == <<"Response", ":", " ", "Follows", CRLF>>
LHangup == <<"Event", ":", " ", "Hangup", CRLF>>
LNewchannel == <<"Event", ":", " ", "Newchannel", CRLF>>
LActionID == <<"ActionID", ":", " ", "other-1", CRLF>>
LText == <<"no such command", CRLF>>
LPath == <<"etc", "/", "asterisk", CRLF>>
LEnd == <<EndMarker, CRLF>>
LTrunc == <<"Respo">>

Ends == {"EOF", "ERR", "OPEN"}

RECURSIVE SeqsUpTo(_, _)
SeqsUpTo(S, n) ==
    IF n = 0 THEN {<<>>}
    ELSE LET shorter == SeqsUpTo(S, n - 1)
         IN shorter \cup {Append(w, x) : w \in {v \in shorter : Len(v) = n - 1}, x \in S}

FrameLines == {EOL, LFollows, LHangup, LActionID, LText, LPath, LEnd}

FrameWires ==
    {pre \o mid \o post :
        pre \in {<<>>, <<LBanner>>, <<LNoTitle>>},
        mid \in SeqsUpTo(FrameLines, MaxMid),
        post \in {<<>>, <<LEnd, EOL>>, <<EOL, LEnd, EOL>>, <<LTrunc>>}}

InitState(w, e, cs, b) ==
    /\ connected = FALSE
    /\ running = FALSE
    /\ sock = "none"
    /\ wire = w
    /\ wireEnd = e
    /\ title = NoneVal
    /\ version = NoneVal
    /\ reader = [pc |-> "notstarted", multiline |-> FALSE, wait |-> FALSE,
                 item |-> Sentinel, err |-> <<>>]
    /\ router = [pc |-> "notstarted", idx |-> 0]
    /\ disp = [pc |-> "notstarted", gid |-> 0, callbacks |-> <<>>, idx |-> 1]
    /\ message_queue = <<>>
    /\ response_queue = <<>>
    /\ rq_cond = [waiting |-> <<>>, notified |-> {}]
    /\ event_queue = <<>>
    /\ errors_in_threads = <<>>
    /\ response_waiters = 0
    /\ seq = 0
    /\ seqlock = 0
    /\ event_callbacks = EmptyDict
    /\ main = [pc |-> "init", result |-> NoResult, error |-> ""]
    /\ pc = [c \in cs |-> "idle"]
    /\ call = [c \in cs |-> [op |-> "none", own |-> FALSE, aid |-> <<>>,
                            ret |-> 0, response |-> NoResult, waited |-> FALSE, outcome |-> "none"]]
    /\ budget = b
    /\ hist = [wire0 |-> w, ngroups |-> 0, groups |-> <<>>, events |-> <<>>, failBlocked |-> {},
               failed |-> FALSE, evSentinels |-> 0, dispSentinels |-> 0,
               routed |-> <<>>, returned |-> <<>>, dispatched |-> <<>>,
               invoked |-> <<>>,
               seqs |-> <<>>, blocked |-> <<>>, regs |-> <<>>,
               closed |-> FALSE, logins |-> <<>>,
               connects |-> <<>>, fanWaiters |-> 0]

(* the streams of the sessions with callers: the banner, then responses and
   an event *)
RespA == <<LSuccess, LActionID, EOL>>
RespB == <<LError, EOL>>
RespC == <<LFollows, LText, LEnd, EOL>>
EvtH == <<LHangup, EOL>>

Scripts == {<<LBanner>> \o RespA \o RespB, <<LBanner>>}

Callers == 1..NumCallers

Init ==
    \E w \in Scripts, e \in {"EOF", "ERR"} : InitState(w, e, Callers, MaxCalls)

Next ==
    \/ Connect
    \/ ConnectGet
    \/ MessageLoopStart
    \/ MessageLoopGet
    \/ MessageLoopNotify
    \/ MessageLoopJoin
    \/ ReceiveDataRead
    \/ ReceiveDataPut
    \/ ReceiveDataExit
    \/ EventDispatchGet
    \/ \E c \in DOMAIN pc : SendAction(c)
    \/ \E c \in DOMAIN pc : NextSeqEnter(c)
    \/ \E c \in DOMAIN pc : NextSeqFinally(c)
    \/ \E c \in DOMAIN pc : SendActionWrite(c)
    \/ \E c \in DOMAIN pc : SendActionRegister(c)
    \/ \E c \in DOMAIN pc : SendActionGet(c)
    \/ \E c \in DOMAIN pc : SendActionReturn(c)
    \/ \E c \in DOMAIN pc : Close(c)
    \/ \E c \in DOMAIN pc : Logoff(c)
    \/ \E c \in DOMAIN pc : CloseRunning(c)
    \/ \E c \in DOMAIN pc : CloseJoinMessage(c)
    \/ \E c \in DOMAIN pc : CloseJoinDispatch(c)

Spec == Init /\ [][Next]_vars

(* one caller that makes its calls one after another, on a stream with the
   banner, three responses and an event between them *)
InitOne ==
    \E e \in Ends :
       InitState(<<LBanner>> \o RespA \o EvtH \o RespB \o RespC, e, {1}, SeqCalls)

SpecOne == InitOne /\ [][Next]_vars

(* handlers are registered and unregistered while two events are received
   and dispatched *)
EvtN == <<LNewchannel, EOL>>

InitDispatch ==
    \E e \in {"EOF", "ERR"} :
       InitState(<<LBanner>> \o EvtH \o EvtN, e, {}, MaxReg)

NextDispatch ==
    \/ Connect
    \/ ConnectGet
    \/ MessageLoopStart
    \/ MessageLoopGet
    \/ MessageLoopNotify
    \/ MessageLoopJoin
    \/ ReceiveDataRead
    \/ ReceiveDataPut
    \/ ReceiveDataExit
    \/ EventDispatchGet
    \/ EventDispatchCall
    \/ RegisterEvent
    \/ UnregisterEvent

SpecDispatch == InitDispatch /\ [][NextDispatch]_vars

(* one caller that logs in, sends actions and closes; the first response of
   the server refuses the login *)
LMessage == <<"Message", ":", " ", "Authentication failed", CRLF>>
RespAuth == <<LError, LMessage, EOL>>

InitLogin ==
    \E e \in Ends :
       InitState(<<LBanner>> \o RespAuth \o RespA \o RespB, e, {1}, SeqCalls)

NextLogin ==
    \/ Connect
    \/ ConnectGet
    \/ MessageLoopStart
    \/ MessageLoopGet
    \/ MessageLoopNotify
    \/ MessageLoopJoin
    \/ ReceiveDataRead
    \/ ReceiveDataPut
    \/ ReceiveDataExit
    \/ EventDispatchGet
    \/ \E c \in DOMAIN pc : Login(c)
    \/ \E c \in DOMAIN pc : SendAction(c)
    \/ \E c \in DOMAIN pc : NextSeqEnter(c)
    \/ \E c \in DOMAIN pc : NextSeqFinally(c)
    \/ \E c \in DOMAIN pc : SendActionWrite(c)
    \/ \E c \in DOMAIN pc : SendActionRegister(c)
    \/ \E c \in DOMAIN pc : SendActionGet(c)
    \/ \E c \in DOMAIN pc : SendActionReturn(c)
    \/ \E c \in DOMAIN pc : Close(c)
    \/ \E c \in DOMAIN pc : Logoff(c)
    \/ \E c \in DOMAIN pc : CloseRunning(c)
    \/ \E c \in DOMAIN pc : CloseJoinMessage(c)
    \/ \E c \in DOMAIN pc : CloseJoinDispatch(c)

SpecLogin == InitLogin /\ [][NextLogin]_vars

(* one caller that sends actions, closes and calls connect() again *)
InitReconnect ==
    \E e \in Ends :
       InitState(<<LBanner>> \o RespA \o RespB, e, {1}, SeqCalls)

NextReconnect ==
    \/ Connect
    \/ ConnectGet
    \/ MessageLoopStart
    \/ MessageLoopGet
    \/ MessageLoopNotify
    \/ MessageLoopJoin
    \/ ReceiveDataRead
    \/ ReceiveDataPut
    \/ ReceiveDataExit
    \/ EventDispatchGet
    \/ \E c \in DOMAIN pc : ConnectAgain(c)
    \/ \E c \in DOMAIN pc : SendAction(c)
    \/ \E c \in DOMAIN pc : NextSeqEnter(c)
    \/ \E c \in DOMAIN pc : NextSeqFinally(c)
    \/ \E c \in DOMAIN pc : SendActionWrite(c)
    \/ \E c \in DOMAIN pc : SendActionRegister(c)
    \/ \E c \in DOMAIN pc : SendActionGet(c)
    \/ \E c \in DOMAIN pc : SendActionReturn(c)
    \/ \E c \in DOMAIN pc : Close(c)
    \/ \E c \in DOMAIN pc : Logoff(c)
    \/ \E c \in DOMAIN pc : CloseRunning(c)
    \/ \E c \in DOMAIN pc : CloseJoinMessage(c)
    \/ \E c \in DOMAIN pc : CloseJoinDispatch(c)

SpecReconnect == InitReconnect /\ [][NextReconnect]_vars

(* a handler registered for Hangup calls close(): the server sends the
   greeting, a Hangup event, the response to the logoff and one more event *)
InitHandlerClose ==
    \E e \in Ends :
       InitState(<<LBanner>> \o EvtH \o RespA \o EvtH, e, {DispatchThread}, 1)

NextHandlerClose ==
    \/ RegisterCloser
    \/ Connect
    \/ ConnectGet
    \/ MessageLoopStart
    \/ MessageLoopGet
    \/ MessageLoopNotify
    \/ MessageLoopJoin
    \/ ReceiveDataRead
    \/ ReceiveDataPut
    \/ ReceiveDataExit
    \/ EventDispatchGet
    \/ EventDispatchCall
    \/ EventDispatchClose
    \/ EventDispatchReturn
    \/ \E c \in DOMAIN pc : Logoff(c)
    \/ \E c \in DOMAIN pc : NextSeqEnter(c)
    \/ \E c \in DOMAIN pc : NextSeqFinally(c)
    \/ \E c \in DOMAIN pc : SendActionWrite(c)
    \/ \E c \in DOMAIN pc : SendActionRegister(c)
    \/ \E c \in DOMAIN pc : SendActionGet(c)
    \/ \E c \in DOMAIN pc : SendActionReturn(c)
    \/ \E c \in DOMAIN pc : CloseRunning(c)
    \/ \E c \in DOMAIN pc : CloseJoinMessage(c)
    \/ \E c \in DOMAIN pc : CloseJoinDispatch(c)

SpecHandlerClose == InitHandlerClose /\ [][NextHandlerClose]_vars

(* two threads register handlers while a Hangup event is received and
   dispatched *)
InitRegister ==
    \E e \in {"EOF", "ERR"} :
       InitState(<<LBanner>> \o EvtH, e, {1, 2}, SeqCalls)

NextRegister ==
    \/ Connect
    \/ ConnectGet
    \/ MessageLoopStart
    \/ MessageLoopGet
    \/ MessageLoopNotify
    \/ MessageLoopJoin
    \/ ReceiveDataRead
    \/ ReceiveDataPut
    \/ ReceiveDataExit
    \/ EventDispatchGet
    \/ EventDispatchCall
    \/ \E c \in DOMAIN pc : RegisterEventGet(c)
    \/ \E c \in DOMAIN pc : RegisterEventAppend(c)
    \/ \E c \in DOMAIN pc : RegisterEventStore(c)

SpecRegister == InitRegister /\ [][NextRegister]_vars

(* the reader and the router on every short stream of lines *)
InitFrame == \E w \in FrameWires, e \in {"EOF", "ERR"} : InitState(w, e, {}, 0)

NextFrame ==
    \/ Connect
    \/ ConnectGet
    \/ MessageLoopStart
    \/ MessageLoopGet
    \/ MessageLoopNotify
    \/ MessageLoopJoin
    \/ ReceiveDataRead
    \/ ReceiveDataPut
    \/ ReceiveDataExit

SpecFrame == InitFrame /\ [][NextFrame]_vars

(* ------------------------------------------------------------ properties *)
HasEvent(m) == HasKey(m.headers, <<"Event">>)
HasResponse(m) == HasKey(m.headers, <<"Response">>)

PendingGids == {x.gid : x \in {y \in Range(message_queue) : ~IsSentinel(y)}}

(* C7: classification is total.  Every group the reader framed is, once the
   router has taken it, on exactly one of the two routes: the response route
   when its message has no Event header (and then it has a Response header),
   the event route when it has one; the router never reports "No clue what we
   got" and never answers a group with a termination marker. *)
C7_ClassificationTotal ==
    /\ "No clue what we got" \notin Range(errors_in_threads)
    /\ 0 \notin Range(hist.routed)
    /\ Range(hist.routed) \cap Range(hist.events) = {}
    /\ Range(hist.routed) \cup Range(hist.events) \cup PendingGids = 1..hist.ngroups
    /\ Len(hist.routed) + Len(hist.events) = Cardinality(Range(hist.routed) \cup Range(hist.events))
    /\ \A g \in Range(hist.routed) :
          LET m == ManagerMessage(hist.groups[g].lines)
          IN HasResponse(m) /\ ~HasEvent(m)
    /\ \A g \in Range(hist.events) : HasEvent(ManagerMessage(hist.groups[g].lines))
    /\ \A x \in Range(response_queue) : IsSentinel(x) \/ (HasResponse(x.msg) /\ ~HasEvent(x.msg))
    /\ \A x \in Range(event_queue) : IsSentinel(x) \/ HasKey(x.ev.headers, <<"Event">>)

(* a group with none of the headers Event, Response, ActionID on the wire was
   routed as a response *)
C7_Witness ==
    \E g \in Range(hist.routed) :
       LET raw == parse(hist.groups[g].lines)
       IN ~HasResponse(raw) /\ ~HasEvent(raw) /\ ~HasKey(raw.headers, <<"ActionID">>)

(* the session began with a banner: a first line with "/" and no ":" whose
   title is not empty *)
BannerFirst ==
    /\ Len(hist.wire0) >= 1
    /\ Contains(hist.wire0[1], "/")
    /\ ~Contains(hist.wire0[1], ":")
    /\ Strip(SplitAll(hist.wire0[1], "/")[1]) # <<>>

(* the lines s..j+1 received are: `Response: Follows`, lines with a blank line
   among them and none that starts with the marker, the marker line, a blank *)
FollowsShape(s, j) ==
    LET w == hist.wire0
    IN /\ s + 1 < j
       /\ j + 1 <= Len(w)
       /\ w[s] = LFollows
       /\ w[j] = LEnd
       /\ w[j + 1] = EOL
       /\ \A k \in (s + 1)..(j - 1) : ~StartsWith(w[k], EndMarker)
       /\ \E k \in (s + 1)..(j - 1) : w[k] = EOL

FirstBlank(lines) == IndexOf(lines, EOL)

(* C8 as amended: on a session that began with the banner, the lines
   `Response: Follows`, any lines with a blank line among them, the marker line
   and a blank line are framed as one group, and the data of its message runs
   from a line at or before the embedded blank line to the end of the group:
   it holds the blank line and the marker line too. *)
C8_FollowsFramingKeepsMarker ==
    BannerFirst =>
      \A i \in 1..Len(hist.groups) : \A j \in 1..Len(hist.wire0) :
         FollowsShape(hist.groups[i].start, j) =>
            LET lines == hist.groups[i].lines
                m == ManagerMessage(lines)
            IN /\ lines = SubSeq(hist.wire0, hist.groups[i].start, j)
               /\ \E k \in 2..FirstBlank(lines) :
                     m.data = Join(SubSeq(lines, k, Len(lines)))
               /\ Contains(m.data, EndMarker)
               /\ m.headers[<<"Response">>] = <<"Follows">>

(* C8 as stated: the data holds the blank line and stops before the marker
   line *)
C8_DataExcludesMarker ==
    \A i \in 1..Len(hist.groups) : \A j \in 1..Len(hist.wire0) :
       FollowsShape(hist.groups[i].start, j) =>
          LET lines == hist.groups[i].lines
              m == ManagerMessage(lines)
          IN /\ lines = SubSeq(hist.wire0, hist.groups[i].start, j)
             /\ \E k \in 2..FirstBlank(lines) :
                   m.data = Join(SubSeq(lines, k, Len(lines) - 1))
             /\ ~Contains(m.data, EndMarker)

(* such a group, with a line before the blank line, was framed and routed *)
C8_Witness ==
    /\ BannerFirst
    /\ \E i \in 1..Len(hist.groups) : \E j \in 1..Len(hist.wire0) :
          /\ FollowsShape(hist.groups[i].start, j)
          /\ hist.wire0[hist.groups[i].start + 1] # EOL
          /\ i \in Range(hist.routed)

(* C9: when the first line received is a banner, the reader records title and
   version, the first group is the generated header line and the banner line
   and nothing else, it is routed as a response, it is what connect() returns,
   and every later group starts after the banner line. *)
C9_GreetingDetection ==
    BannerFirst =>
      LET first == hist.wire0[1]
          greeting == <<FakeHeader, first>>
      IN /\ Len(wire) = Len(hist.wire0) => title = NoneVal /\ hist.groups = <<>>
         /\ Len(wire) < Len(hist.wire0) =>
               /\ title = Strip(SplitAll(first, "/")[1])
               /\ version = Strip(SplitAll(first, "/")[2])
               /\ Len(hist.groups) >= 1
               /\ hist.groups[1].lines = greeting
               /\ \A i \in 2..Len(hist.groups) :
                     /\ hist.groups[i].start >= 2
                     /\ Head(hist.groups[i].lines) # FakeHeader
         /\ 1 \notin Range(hist.events)
         /\ hist.routed # <<>> => hist.routed[1] = 1
         /\ main.pc = "ready" =>
               /\ main.result.gid = 1
               /\ main.result.msg = ManagerMessage(greeting)
               /\ main.result.msg.headers[<<"Response">>] = GeneratedHeader
               /\ main.result.msg.data = first

(* connect() returned the greeting and a later group was framed *)
C9_Witness ==
    /\ BannerFirst
    /\ main.pc = "ready"
    /\ Len(hist.groups) >= 2

(* ------------------------------------------------ termination, correlation *)
(* after its walk over _response_waiters the router puts nothing more *)
RouterPastFanOut == router.pc \in {"join", "done"}

(* thread c waits in the condition of the response queue, nothing is in the
   queue, and nothing will be put *)
StuckInGet(c) ==
    /\ pc[c] = "wait"
    /\ response_queue = <<>>
    /\ RouterPastFanOut

(* C1: shutdown fan-out.  When the transport has failed with callers waiting
   in send_action, none of them is left waiting once the router has done its
   fan-out and the queue is drained, the dispatcher is sent one termination
   marker, and it stops on it. *)
C1_FanOutReachesAllWaiters ==
    /\ hist.failed => \A c \in hist.failBlocked : ~StuckInGet(c)
    /\ hist.evSentinels <= 1
    /\ hist.failed /\ RouterPastFanOut => hist.evSentinels = 1
    /\ hist.dispSentinels = 1 => disp.pc = "done"

(* both callers waited when the transport failed; the first got the one
   marker the router put and has raised, the second waits with nothing to
   come *)
C1_Witness ==
    /\ hist.failBlocked = {1, 2}
    /\ pc[1] = "idle" /\ call[1].outcome = "Connection Terminated"
    /\ StuckInGet(2)
    /\ response_waiters = 1

(* C2: no send_action call hangs across a termination.  No caller that passed
   the connected check is left waiting for a response with the queue empty
   after the router has done its fan-out. *)
C2_NoCallHangs ==
    \A c \in DOMAIN pc : ~StuckInGet(c)

(* nobody waited when the transport failed; a caller that had written its
   command registered after the router's walk and waits with nothing to come *)
C2_Witness ==
    /\ hist.failed
    /\ hist.failBlocked = {}
    /\ hist.evSentinels = 1
    /\ \E c \in DOMAIN pc : call[c].op = "send_action" /\ StuckInGet(c)

(* the groups framed so far that are classified as responses, in the order
   received *)
ResponseGids ==
    SelectSeq([i \in 1..Len(hist.groups) |-> i],
              LAMBDA g : ~HasEvent(ManagerMessage(hist.groups[g].lines)))

IsPrefix(p, q) == Len(p) <= Len(q) /\ p = SubSeq(q, 1, Len(p))

(* C3: sequential FIFO correlation.  With one caller whose calls follow one
   another, after connect() has taken the greeting, the k-th call that returns
   a response returns the message of the k-th response group received after
   the greeting, whatever headers it carries: the responses returned so far
   are the first response groups received, in order. *)
C3_SequentialFifo ==
    /\ IsPrefix(hist.returned, ResponseGids)
    /\ pc[1] = "pop" /\ ~IsSentinel(call[1].response) =>
          LET g == ResponseGids[Len(hist.returned)]
          IN /\ Len(hist.returned) >= 2
             /\ call[1].response.gid = g
             /\ call[1].response.msg = ManagerMessage(hist.groups[g].lines)

(* the third call in a row holds the third response after the greeting, which
   carries an ActionID that is not the caller's *)
C3_Witness ==
    /\ budget = 1
    /\ pc[1] = "pop"
    /\ Len(hist.returned) = 4
    /\ call[1].response.msg = ManagerMessage(<<LFollows, LText, LEnd>>)
    /\ hist.groups[2].lines = <<LSuccess, LActionID>>
    /\ call[1].aid # <<"other-1">>

(* C4 as amended: with several callers waiting at the same time, the
   responses are handed out in the order the router enqueued them, each to
   the caller whose get() takes it next (a woken caller takes the queue's lock
   in a race with the others): the responses returned so far are the first
   responses received, in order, two callers never hold the same one, and
   only a caller inside get() is waiting or woken. *)
C4_HandedOutInQueueOrder ==
    /\ IsPrefix(hist.returned, ResponseGids)
    /\ \A c, d \in DOMAIN pc :
          (c # d /\ pc[c] = "pop" /\ pc[d] = "pop"
                 /\ ~IsSentinel(call[c].response) /\ ~IsSentinel(call[d].response))
          => call[c].response.gid # call[d].response.gid
    /\ \A c \in DOMAIN pc :
          c \in Range(rq_cond.waiting) \cup rq_cond.notified => pc[c] = "wait"

(* C4 as stated: a waiting caller that takes a response is the one that has
   waited longest *)
C4_LongestWaiterFirst ==
    [][\A c \in DOMAIN pc :
          (pc[c] = "wait" /\ pc'[c] = "pop" /\ ~IsSentinel(call'[c].response))
          => Head(hist.blocked) = c]_vars

(* two callers that both waited hold one response each *)
C4_Witness ==
    \E c, d \in DOMAIN pc :
       /\ c # d
       /\ pc[c] = "pop" /\ pc[d] = "pop"
       /\ call[c].waited /\ call[d].waited
       /\ ~IsSentinel(call[c].response) /\ ~IsSentinel(call[d].response)

(* the callers that hold a sequence number or an ActionID *)
PastNextSeq(c) == pc[c] \in {"next_seq_finally", "write", "register", "get", "wait", "pop"}
HasActionID(c) == pc[c] \in {"write", "register", "get", "wait", "pop"}

(* C10: ActionID sequencing.  The numbers next_seq hands out strictly increase
   in the order it is entered, no two calls in progress hold the same one, the
   counter moves by one for each number handed out and for nothing else, a
   call without an ActionID sends the one formatted from its number, and a
   call with its own ActionID sends that one and takes no number. *)
C10_ActionIdSequencing ==
    /\ \A i, j \in 1..Len(hist.seqs) : i < j => hist.seqs[i] < hist.seqs[j]
    /\ seq = Len(hist.seqs) - (IF seqlock = 0 THEN 0 ELSE 1)
    /\ \A c, d \in DOMAIN pc :
          (c # d /\ PastNextSeq(c) /\ PastNextSeq(d) /\ ~call[c].own /\ ~call[d].own)
          => call[c].ret # call[d].ret
    /\ \A c \in DOMAIN pc :
          /\ PastNextSeq(c) /\ ~call[c].own => call[c].ret \in Range(hist.seqs)
          /\ HasActionID(c) =>
                call[c].aid = IF call[c].own THEN OwnActionID(c)
                              ELSE FormatActionID(call[c].ret)
          /\ seqlock = c => pc[c] = "next_seq_finally" /\ ~call[c].own

(* two calls run at the same time: one has its ActionID, the other is inside
   next_seq with the next number *)
C10_Witness ==
    \E c, d \in DOMAIN pc :
       /\ pc[c] = "write" /\ ~call[c].own /\ call[c].ret = 0
       /\ pc[d] = "next_seq_finally" /\ call[d].ret = 1

(* ---------------------------------------------------------------- dispatch *)
(* the invocations made for the event of group g, in the order made *)
InvokedFor(g) ==
    LET mine == SelectSeq(hist.invoked, LAMBDA x : x.gid = g)
    IN [i \in 1..Len(mine) |-> mine[i].handler]

(* the dispatch of the event of group g is over *)
DispatchOver(g) == ~(disp.pc = "call" /\ disp.gid = g)

Truthy(h) == HandlerResult(h) = "truthy"

(* the handlers of `callbacks` up to the first one that returns a truthy
   value, or all of them *)
UpToFirstTruthy(callbacks) ==
    IF \E i \in 1..Len(callbacks) : Truthy(callbacks[i])
    THEN SubSeq(callbacks, 1,
                CHOOSE i \in 1..Len(callbacks) :
                   Truthy(callbacks[i]) /\ \A j \in 1..(i - 1) : ~Truthy(callbacks[j]))
    ELSE callbacks

(* C5: dispatch ordering and short-circuit.  For every dispatched event the
   list walked is the handlers registered for its name followed by those
   registered for "*", each in registration order; the handlers invoked are a
   prefix of it that stops at the first truthy result; and when the dispatch of
   the event is over they are that whole prefix: all the handlers when none
   returns a truthy value. *)
C5_DispatchOrderShortCircuit ==
    \A k \in 1..Len(hist.dispatched) :
       LET d == hist.dispatched[k]
       IN /\ d.callbacks = d.registered
          /\ IsPrefix(InvokedFor(d.gid), UpToFirstTruthy(d.callbacks))
          /\ DispatchOver(d.gid) => InvokedFor(d.gid) = UpToFirstTruthy(d.callbacks)

(* a handler raised: the thread is gone, and a handler after it in the list
   was not called though none returned a truthy value *)
C5_Witness ==
    /\ disp.pc = "dead"
    /\ disp.idx <= Len(disp.callbacks)
    /\ \A i \in 1..Len(disp.callbacks) : ~Truthy(disp.callbacks[i])
    /\ errors_in_threads = <<>>

(* C6: event ordering.  Events are dispatched in the order their groups were
   received, and every invocation for an earlier event is made before any
   invocation for a later one. *)
C6_EventOrdering ==
    /\ \A i, j \in 1..Len(hist.events) : i < j => hist.events[i] < hist.events[j]
    /\ \A i, j \in 1..Len(hist.dispatched) :
          i < j => /\ hist.dispatched[i].gid < hist.dispatched[j].gid
                   /\ hist.groups[hist.dispatched[i].gid].start
                        < hist.groups[hist.dispatched[j].gid].start
    /\ \A i, j \in 1..Len(hist.invoked) :
          i < j => hist.invoked[i].gid <= hist.invoked[j].gid
    /\ \A i \in 1..Len(hist.invoked) :
          \E k \in 1..Len(hist.dispatched) :
             /\ hist.dispatched[k].gid = hist.invoked[i].gid
             /\ hist.dispatched[k].gid \in Range(hist.events)

(* handlers were invoked for both events, two of them for the first *)
C6_Witness ==
    /\ Len(hist.dispatched) = 2
    /\ Len(InvokedFor(hist.dispatched[1].gid)) = 2
    /\ Len(InvokedFor(hist.dispatched[2].gid)) >= 1

(* ------------------------------------------------------------- the flags *)
(* the transport failed and the reader and the router have ended *)
FailureProcessed == hist.failed /\ reader.pc = "done" /\ router.pc = "done"

(* C11 as amended: after a close() that returned, is_connected() and
   is_running() are both false; after a transport failure that the reader and
   the router have fully processed, is_connected() is false and is_running()
   stays true until a close() has returned (only close() clears `running`). *)
C11_FlagsAfterTermination ==
    /\ hist.closed => ~connected /\ ~running
    /\ FailureProcessed => ~connected /\ (running <=> ~hist.closed)

(* C11 as stated: both flags are false once the session has terminated either
   way *)
C11_BothFlagsFalse ==
    (hist.closed \/ FailureProcessed) => ~connected /\ ~running

(* the transport failed, the three threads have ended, nobody has called
   close(), and is_running() is true *)
C11_Witness ==
    /\ FailureProcessed
    /\ disp.pc = "done"
    /\ ~hist.closed
    /\ running /\ ~connected

(* ------------------------------------------------------------------ close *)
(* the last call of thread c was a close() of a session that was running and
   connected, and it has ended: it returned or it raised *)
CloseEnded(c) == pc[c] = "idle" /\ call[c].op = "logoff"

(* the reader, the router and the dispatcher have ended and the flag is clear *)
ShutDown ==
    /\ reader.pc = "done"
    /\ router.pc = "done"
    /\ disp.pc = "done"
    /\ ~running

(* C12: close() completes the shutdown.  A close() of a running, connected
   session does not wait for ever for its logoff, and when it has ended the
   three threads have ended and is_running() is false, also when the logoff
   failed. *)
C12_CloseCompletesShutdown ==
    \A c \in DOMAIN pc :
       /\ call[c].op = "logoff" => ~StuckInGet(c)
       /\ CloseEnded(c) => ShutDown

(* a close() ended with the exception of its logoff; is_running() is true *)
C12_Witness ==
    \E c \in DOMAIN pc :
       /\ CloseEnded(c)
       /\ call[c].outcome \in {"Not connected", "write failed", "Connection Terminated"}
       /\ running
       /\ ~hist.closed

(* what a session is made of, the callers' own locals left out *)
session == <<connected, running, sock, wire, wireEnd, title, version, reader, router,
             disp, message_queue, response_queue, rq_cond, event_queue,
             errors_in_threads, response_waiters, seq, seqlock, event_callbacks,
             main>>

(* thread c enters close() in this step *)
CloseStarts(c) ==
    pc[c] = "idle" /\ pc'[c] # "idle" /\ call'[c].op \in {"close", "logoff"}

(* C13: close() is idempotent.  A close() that starts on a session that is
   not running and not connected (never connected, or closed before) skips the
   logoff and the joins: neither of its two steps writes, puts a marker on a
   queue, waits or raises, and both flags are false before and after. *)
C13_CloseIdempotent ==
    [][\A c \in DOMAIN pc :
          /\ (CloseStarts(c) /\ ~running /\ ~connected) =>
                /\ pc'[c] = "close_running"
                /\ UNCHANGED session
          /\ (pc[c] = "close_running" /\ pc'[c] # "close_running" /\ ~running) =>
                /\ pc'[c] = "idle"
                /\ call'[c] = call[c]
                /\ UNCHANGED session
                /\ ~running' /\ ~connected']_vars

(* a close() has returned before, and another one is past its tests on the
   session that is no longer running *)
C13_Witness ==
    /\ hist.closed
    /\ main.pc = "ready"
    /\ ~running /\ ~connected
    /\ \E c \in DOMAIN pc : pc[c] = "close_running" /\ call[c].op = "close"

(* a login() of this session has raised ManagerAuthException *)
AuthFailed ==
    \E i \in DOMAIN hist.logins : hist.logins[i].kind = "ManagerAuthException"

(* the transport has not failed and no close() is past its logoff *)
Undisturbed ==
    /\ ~hist.failed
    /\ ~hist.closed
    /\ \A c \in DOMAIN pc :
          pc[c] \notin {"close_running", "close_join", "close_join_dispatch"}

(* a group is on its way to the caller that waits *)
ResponseInFlight ==
    \/ wire # <<>>
    \/ reader.pc = "put"
    \/ message_queue # <<>>
    \/ router.pc = "notify"
    \/ response_queue # <<>>

(* C14: authentication failure is recoverable.  login() raises
   ManagerAuthException exactly when the response its send_action returned
   has `Response: Error`, with the value of that response's Message header as
   argument; the step that raises changes nothing of the session but the
   waiter it removes; afterwards, unless the transport fails or close() is
   called, both flags are true, the three loops are running, a send_action
   that follows returns a response, and one that waits has a response on its
   way unless the server has sent nothing more. *)
C14_AuthFailureRecoverable ==
    /\ [](/\ \A i \in DOMAIN hist.logins :
               LET l == hist.logins[i]
                   h == ManagerMessage(hist.groups[l.gid].lines).headers
                   isError == HasKey(h, <<"Response">>) /\ h[<<"Response">>] = <<"Error">>
               IN /\ l.kind = "ManagerAuthException" <=> isError
                  /\ l.kind # "ManagerAuthException" => l.kind = "response"
                  /\ isError /\ HasKey(h, <<"Message">>) => l.arg = h[<<"Message">>]
                  /\ isError /\ ~HasKey(h, <<"Message">>) => l.arg = NoneVal
          /\ AuthFailed /\ Undisturbed =>
                /\ connected /\ running
                /\ reader.pc \in {"loop", "put"}
                /\ router.pc = "loop"
                /\ disp.pc = "top"
                /\ \A c \in DOMAIN pc :
                      /\ (pc[c] = "idle" /\ call[c].op = "send_action"
                             /\ wireEnd # "ERR") => call[c].outcome = "response"
                      /\ pc[c] = "wait" =>
                            \/ ResponseInFlight
                            \/ Len(hist.returned) = hist.ngroups)
    /\ [][\A c \in DOMAIN pc :
            (pc[c] = "pop" /\ pc'[c] = "idle"
               /\ call'[c].outcome = "ManagerAuthException") =>
               /\ response_waiters' = response_waiters - 1
               /\ UNCHANGED <<connected, running, sock, wire, wireEnd, title, version,
                              reader, router, disp, message_queue, response_queue,
                              rq_cond, event_queue, errors_in_threads, seq, seqlock,
                              event_callbacks, main>>]_vars

(* the login was refused with the server's message, nothing else has
   happened to the session, and the send_action that followed has returned
   the next response *)
C14_Witness ==
    /\ Len(hist.logins) = 1
    /\ hist.logins[1].kind = "ManagerAuthException"
    /\ hist.logins[1].arg = <<"Authentication failed">>
    /\ Undisturbed
    /\ connected /\ running
    /\ pc[1] = "idle" /\ call[1].op = "send_action" /\ call[1].outcome = "response"
    /\ hist.returned = <<1, 2, 3>>

(* thread c starts operation op in this step and it ends in the same step *)
EndsAtOnce(c, op) ==
    /\ pc[c] = "idle" /\ pc'[c] = "idle"
    /\ budget' = budget - 1
    /\ call'[c].op = op
    /\ \A d \in DOMAIN pc \ {c} : pc'[d] = pc[d] /\ call'[d] = call[d]

(* thread c starts operation op in this step and goes on with it *)
GoesOn(c, op) ==
    /\ pc[c] = "idle" /\ pc'[c] # "idle"
    /\ call'[c].op = op

(* C15: synchronous state errors leave the session untouched.  A send_action
   goes past its first test exactly when `connected` is set; when it is not,
   the call ends at once with ManagerException('Not connected'), and a
   connect() called while `connected` is set ends at once with
   ManagerException('Already connected'): the step changes no flag, no queue,
   no waiter, no sequence number, no thread and writes nothing. *)
C15_StateErrorsTouchNothing ==
    [][\A c \in DOMAIN pc :
          /\ GoesOn(c, "send_action") => connected /\ pc'[c] \in {"next_seq", "write"}
          /\ EndsAtOnce(c, "send_action") =>
                /\ ~connected
                /\ call'[c].outcome = "Not connected"
                /\ UNCHANGED <<session, hist>>
          /\ ~GoesOn(c, "connect")
          /\ (EndsAtOnce(c, "connect") /\ connected) =>
                /\ call'[c].outcome = "Already connected"
                /\ hist'.connects = Append(hist.connects, "Already connected")
                /\ UNCHANGED session
          /\ (EndsAtOnce(c, "connect") /\ call'[c].outcome = "Already connected") =>
                connected]_vars

(* a connect() on the connected session has raised, the session was closed,
   and a send_action on it has raised *)
C15_Witness ==
    /\ hist.connects = <<"Already connected">>
    /\ hist.closed
    /\ pc[1] = "idle"
    /\ call[1].op = "send_action"
    /\ call[1].outcome = "Not connected"
    /\ ~connected /\ ~running

(* the messages _receive_data and message_loop put on errors_in_threads *)
ReaderMessages ==
    {"Socket error", "No lines received", "Received lines but are not connected"}

RouterMessages == {"No clue what we got"}

(* the number of elements of a sequence that are in a set *)
CountIn(q, S) == Len(SelectSeq(q, LAMBDA x : x \in S))

(* C16: background failures are observable.  Once the reader has put its
   termination marker after a failed read, errors_in_threads holds one of
   its messages; it holds one router message for every group the router
   could not classify; and once a handler's exception has ended the
   dispatcher, it holds a message for that too. *)
C16_FailuresObservable ==
    /\ (hist.failed /\ reader.pc # "put") =>
          CountIn(errors_in_threads, ReaderMessages) = 1
    /\ CountIn(errors_in_threads, RouterMessages) = CountIn(hist.routed, {0})
    /\ disp.pc = "dead" =>
          \E i \in DOMAIN errors_in_threads :
             errors_in_threads[i] \notin ReaderMessages \cup RouterMessages

(* every thread has ended, the dispatcher by a handler's exception, and the
   only message is the reader's *)
C16_Witness ==
    /\ disp.pc = "dead"
    /\ reader.pc = "done"
    /\ router.pc = "done"
    /\ Len(errors_in_threads) = 1
    /\ errors_in_threads[1] \in ReaderMessages

(* the groups and events of a queue, its termination markers left out *)
Messages(q) == SelectSeq(q, LAMBDA x : ~IsSentinel(x))

(* the groups dispatched so far *)
DispatchedGids == [k \in 1..Len(hist.dispatched) |-> hist.dispatched[k].gid]

(* no element of a sequence is there twice *)
NoRepeat(q) == \A i, j \in 1..Len(q) : q[i] = q[j] => i = j

(* C17: exactly-once delivery.  No group is returned twice, dispatched twice,
   or both; and no group is left behind: when the router has ended, no group
   the reader has put is still on the message queue, and when the dispatcher
   has ended, no event is still on the event queue. *)
C17_ExactlyOnce ==
    /\ NoRepeat(hist.returned \o DispatchedGids)
    /\ Range(hist.returned) \cup Range(DispatchedGids) \subseteq 1..hist.ngroups
    /\ router.pc = "done" => Messages(message_queue) = <<>>
    /\ disp.pc \in {"done", "dead"} => Messages(event_queue) = <<>>

(* close() has returned and every thread has ended; a group that the reader
   put after close()'s marker is still on the message queue *)
C17_Witness ==
    /\ hist.closed
    /\ ShutDown
    /\ \A c \in DOMAIN pc : pc[c] = "idle"
    /\ Messages(message_queue) # <<>>
    /\ errors_in_threads = <<"No lines received">>

(* the callers whose request is written and who have not returned: line 308
   is done, line 317 is not *)
WrittenNotReturned ==
    {c \in DOMAIN pc : pc[c] \in {"register", "get", "wait", "pop"}}

(* C18: register before transmit.  At every moment every caller whose request
   has been written and who has not yet returned is counted in
   _response_waiters, and nobody else is. *)
C18_RegisteredWhileWritten ==
    response_waiters = Cardinality(WrittenNotReturned)

(* the request of a caller is on the wire of a healthy session and the
   waiter list is empty *)
C18_Witness ==
    /\ connected /\ running
    /\ ~hist.failed
    /\ response_waiters = 0
    /\ \E c \in DOMAIN pc : pc[c] = "register" /\ call[c].op = "send_action"

(* the router has taken a termination marker *)
MarkerTaken == hist.evSentinels > 0

(* C19: termination is forwarded exactly once.  The router puts at most one
   marker on the event queue; from the marker on it routes nothing more; and
   the markers it puts on the response queue are never more than the waiters
   registered when it took the marker, and exactly as many once its walk is
   over. *)
C19_ForwardedOncePerWaiter ==
    /\ hist.evSentinels <= 1
    /\ MarkerTaken => router.pc \in {"notify", "join", "done"}
    /\ (MarkerTaken /\ router.pc = "notify") => router.idx <= hist.fanWaiters
    /\ (MarkerTaken /\ router.pc \in {"join", "done"}) => router.idx = hist.fanWaiters

(* two callers were registered when the router took the marker, and its walk
   has ended after one marker: the first caller woken removed itself from the
   list under the iterator *)
C19_Witness ==
    /\ hist.fanWaiters = 2
    /\ router.pc \in {"join", "done"}
    /\ router.idx = 1
    /\ response_waiters = 1

(* the termination markers put on the message queue so far, where nobody but
   the reader puts one: those still queued and the one the router took *)
MarkersPut == Len(SelectSeq(message_queue, IsSentinel)) + hist.evSentinels

(* C20: reader termination.  Where only the reader puts markers: `connected`
   is cleared when the reader holds its marker and has not put it yet; it
   puts one marker, never two, never one while `connected` is set, and has
   put exactly one when it has left its loop; after the marker it reads
   nothing more; no group it puts is empty; and `connected` is cleared only by
   the reader's step that meets the end of the stream or the socket error,
   which puts nothing. *)
C20_ReaderTermination ==
    /\ [](/\ reader.pc = "put" =>
               ~connected /\ IsSentinel(reader.item) /\ MarkersPut = 0
          /\ MarkersPut <= 1
          /\ MarkersPut = 1 => ~connected /\ hist.failed /\ reader.pc \in {"loop", "done"}
          /\ reader.pc = "done" => MarkersPut = 1
          /\ hist.failed <=> ~connected /\ main.pc \notin {"init", "raised"}
          /\ \A i \in DOMAIN hist.groups : hist.groups[i].lines # <<>>
          /\ \A i \in DOMAIN message_queue :
                ~IsSentinel(message_queue[i]) => message_queue[i].lines # <<>>)
    /\ [][/\ (connected /\ ~connected') =>
               /\ reader.pc = "loop" /\ reader'.pc = "put"
               /\ wire' = <<>> /\ wireEnd \in {"EOF", "ERR"}
               /\ message_queue' = message_queue
          /\ MarkersPut = 1 => wire' = wire /\ hist'.ngroups = hist.ngroups]_vars

(* the stream ended with lines pending: the reader has cleared `connected`,
   put its one marker in place of them, and left its loop *)
C20_Witness ==
    /\ reader.pc = "done"
    /\ ~connected
    /\ MarkersPut = 1
    /\ errors_in_threads = <<"Received lines but are not connected">>
    /\ hist.ngroups >= 1

(* the events for which the handler that calls close() was invoked *)
CloserGids ==
    {hist.invoked[i].gid : i \in {j \in DOMAIN hist.invoked :
                                     HandlerResult(hist.invoked[j].handler) = "close"}}

(* the close() a handler called is over, by return or by exception *)
HandlerCloseOver ==
    /\ DispatchThread \in DOMAIN pc
    /\ CloserGids # {}
    /\ pc[DispatchThread] = "idle"

(* it ended by an exception of its logoff *)
HandlerCloseRaised ==
    /\ HandlerCloseOver
    /\ call[DispatchThread].op = "logoff"
    /\ call[DispatchThread].outcome # "response"

(* C21: close() from an event handler.  A close() on the dispatch thread
   never waits for the dispatch thread: at the join of line 581 it can go on
   at once.  When it is over it has returned, the router has ended and
   `running` is clear; and no event after the one whose handler closed is
   dispatched. *)
C21_CloseFromHandler ==
    /\ (DispatchThread \in DOMAIN pc /\ pc[DispatchThread] = "close_join_dispatch") =>
          ENABLED CloseJoinDispatch(DispatchThread)
    /\ HandlerCloseOver =>
          /\ ~HandlerCloseRaised
          /\ router.pc = "done"
          /\ ~running
          /\ disp.pc \in {"handler", "call", "top", "done"}
    /\ \A k \in DOMAIN hist.dispatched : \A g \in CloserGids :
          hist.dispatched[k].gid <= g

(* the handler called close() while the server was closing the connection:
   the logoff raised, `running` is still set, and the exception has ended the
   dispatch thread *)
C21_Witness ==
    /\ HandlerCloseRaised
    /\ call[DispatchThread].outcome = "Not connected"
    /\ running
    /\ disp.pc = "dead"

(* a handler that raises has been invoked *)
HandlerRaised ==
    \E i \in DOMAIN hist.invoked : HandlerResult(hist.invoked[i].handler) = "raise"

(* C22: handler failure containment.  The dispatch thread is never ended by
   a handler's exception: it ends only on the termination marker or with
   `running` clear, and when it has ended no event is left on its queue, also
   after a handler has raised. *)
C22_HandlerFailureContained ==
    /\ disp.pc # "dead"
    /\ disp.pc = "done" => hist.dispSentinels = 1 \/ ~running
    /\ (HandlerRaised /\ disp.pc \notin {"top", "call"}) => Messages(event_queue) = <<>>

(* the handler of the first event raised; the second event was queued behind
   it and is still there, with the marker, and the thread is gone *)
C22_Witness ==
    /\ HandlerRaised
    /\ disp.pc = "dead"
    /\ Len(hist.dispatched) = 1
    /\ Len(Messages(event_queue)) = 1
    /\ Len(event_queue) = 2
    /\ router.pc = "done"

(* no thread is inside register_event *)
NoRegistrationInProgress ==
    \A c \in DOMAIN pc : pc[c] \notin {"reg_append", "reg_store"}

(* the handlers invoked for every dispatched event are those of the list
   built when its dispatch began, up to the first truthy result *)
SnapshotDispatched ==
    \A k \in 1..Len(hist.dispatched) :
       LET d == hist.dispatched[k]
       IN /\ IsPrefix(InvokedFor(d.gid), UpToFirstTruthy(d.callbacks))
          /\ DispatchOver(d.gid) => InvokedFor(d.gid) = UpToFirstTruthy(d.callbacks)
          /\ (disp.pc = "call" /\ disp.gid = d.gid) => disp.callbacks = d.callbacks

(* C23: the callback registry is safe under concurrency.  (a) The handlers
   invoked for an event are those of the list taken when its dispatch began,
   whatever is registered meanwhile.  (b) Once the register_event calls of
   the threads have returned, every handler registered is in the list of its
   event name, as often as it was registered. *)
C23_RegistrySafe ==
    /\ SnapshotDispatched
    /\ NoRegistrationInProgress =>
          \A name \in EventNames :
             /\ Len(GetList(event_callbacks, name)) = Len(RegisteredFor(hist.regs, name))
             /\ \A h \in Handlers :
                   CountIn(GetList(event_callbacks, name), {h})
                      = CountIn(RegisteredFor(hist.regs, name), {h})

(* both threads have registered a handler for Hangup and have returned; the
   list holds only the handler of the thread that stored last *)
C23_Witness ==
    /\ NoRegistrationInProgress
    /\ hist.regs = << [name |-> <<"Hangup">>, handler |-> "hF"],
                      [name |-> <<"Hangup">>, handler |-> "hT"] >>
    /\ call[1].op = "register_event" /\ call[2].op = "register_event"
    /\ event_callbacks[<<"Hangup">>] = <<"hT">>

(* the router has ended its fan-out without having routed any response, and
   the response queue is empty *)
NothingForConnect ==
    /\ RouterPastFanOut
    /\ hist.routed = <<>>
    /\ response_queue = <<>>

(* C24: connect() does not hang on an early failure.  When the transport has
   failed before any response was routed and the router has done its fan-out,
   connect() is not left in its get(): it has raised 'Connection Terminated'. *)
C24_ConnectDoesNotHang ==
    NothingForConnect =>
       /\ main.pc \notin {"get", "wait"}
       /\ main.pc = "raised"
       /\ main.error = "Connection Terminated"

(* the server closed the connection before sending anything: the reader and
   the router have ended, the dispatcher has its marker, and connect() waits
   on the empty response queue *)
C24_Witness ==
    /\ hist.wire0 = <<>>
    /\ hist.failed
    /\ reader.pc = "done"
    /\ router.pc = "done"
    /\ hist.evSentinels = 1
    /\ NothingForConnect
    /\ main.pc = "wait"
    /\ rq_cond.waiting = <<0>>

(* a line with "/" and without ":" *)
BannerShaped(line) == Contains(line, "/") /\ ~Contains(line, ":")

(* the groups that hold the generated header line *)
GreetingGroups ==
    {i \in DOMAIN hist.groups :
        \E k \in DOMAIN hist.groups[i].lines : hist.groups[i].lines[k] = FakeHeader}

(* C25: only the very first line of a session can be a banner.  The generated
   header line is found in no group but the first, which is then that line and
   the first line received; and a title or version, once recorded, is that of
   the first line received. *)
C25_OnlyFirstLineIsBanner ==
    /\ \A i \in GreetingGroups :
          /\ i = 1
          /\ hist.groups[i].start = 1
          /\ BannerShaped(hist.wire0[1])
          /\ hist.groups[i].lines = <<FakeHeader, hist.wire0[1]>>
    /\ (title # NoneVal \/ version # NoneVal) =>
          /\ Len(hist.wire0) >= 1
          /\ BannerShaped(hist.wire0[1])
          /\ title = Strip(SplitAll(hist.wire0[1], "/")[1])
          /\ version = Strip(SplitAll(hist.wire0[1], "/")[2])

(* the session began with a header line, not a banner; a later line of the
   same group has "/" and no ":": it was taken as the greeting, the header
   line was put in front of it inside the group, the group ended there, and
   its first part is the recorded title *)
C25_Witness ==
    /\ Len(hist.wire0) >= 2
    /\ hist.wire0[1] = LActionID
    /\ hist.wire0[2] = LPath
    /\ Len(hist.groups) >= 1
    /\ hist.groups[1].lines = <<LActionID, FakeHeader, LPath>>
    /\ title = <<"etc">>
    /\ version = <<"asterisk">>

====
